---- MODULE Spec2Model ----
(***************************************************************************)
(* Demand-paging simulator, src/demandpaging.c.                            *)
(*                                                                         *)
(* The file holds two variants of the same program.  Spec is the           *)
(* circular-queue variant (lines 298-611): initialize_system, the          *)
(* SwapQueue operations, swap_out_process, handle_page_fault,              *)
(* swap_in_process, simulate_binary_search and the scheduler loop of main. *)
(* SpecRR is the same program with the variable rr recording who ran in    *)
(* which iteration.  Spec_v1 is the array-shifting variant (lines 1-297),  *)
(* whose definitions end in _v1.                                           *)
(*                                                                         *)
(* One step of the model is one iteration of main's while loop (the        *)
(* all_done scan, one call of simulate_binary_search, the cursor advance), *)
(* or the exit from that loop.  Spec_v1 follows a run up to the first      *)
(* access past the end of search_indices or of a swap_queue array.         *)
(*                                                                         *)
(* The #define constants keep their names; PAGE_SIZE, PAGE_TABLE_SIZE,     *)
(* ESSENTIAL_PAGES, MAX_PROCESSES and MAX_SEARCHES are scaled down (the    *)
(* source has 4096, 2048, 10, 500 and 100) so that the frame pool can be   *)
(* exhausted and the page table overrun by the workloads explored.  The    *)
(* size of the frame pool (the #define USER_FRAMES) is an input of the     *)
(* model, the variable USER_FRAMES, drawn from 0..MaxFrames.               *)
(*                                                                         *)
(* A C array a[n] is a function on 0..n-1, except free_frames, which is    *)
(* the sequence of its live prefix free_frames[0..num_free_frames-1].      *)
(*                                                                         *)
(* initialize_system does not validate array_size, so a search can compute *)
(* a page number past the end of page_table.  The access is undefined      *)
(* behaviour: the read yields an entry with the valid bit set or clear     *)
(* (read_entry), and the store of handle_page_fault lands outside the      *)
(* table; the model keeps what the code does to its named objects (the     *)
(* frame leaves the free list, frames_allocated is incremented) and no     *)
(* entry of the table changes.                                             *)
(***************************************************************************)
EXTENDS Integers, Sequences, FiniteSets, TLC

\* ---------------------------------------------------------------- constants

PAGE_SIZE == 8

PAGE_TABLE_SIZE == 4

ESSENTIAL_PAGES == 2

VALID_BIT_MASK == 32768

MAX_PROCESSES == 3

MAX_SEARCHES == 2

\* ------------------------------------------------------------------- bounds

\* Largest frame pool explored.
MaxFrames == 8

\* Largest array size of a process; MaxArraySize - 1 is explored as well.
MaxArraySize == 6

\* Largest search key; keys are drawn from {0, MaxKey}.
MaxKey == 4

FramePools == 0..MaxFrames

ArraySizes == {2, MaxArraySize - 1, MaxArraySize}

Keys == {0, MaxKey}

\* ------------------------------------------------------------------ helpers

Min(a, b) == IF a < b THEN a ELSE b

\* e & VALID_BIT_MASK, for an unsigned short e
IsValid(e) == (e \div VALID_BIT_MASK) % 2 = 1

\* (unsigned short)(frame | VALID_BIT_MASK)
MakeEntry(frame) == (frame % VALID_BIT_MASK) + VALID_BIT_MASK

\* e & ~VALID_BIT_MASK
FrameOf(e) == IF IsValid(e) THEN e - VALID_BIT_MASK ELSE e

Pids(sys) == 0..(sys.num_processes - 1)

Pages == 0..(PAGE_TABLE_SIZE - 1)

\* ------------------------------------------------------------------- queue

initQueue == [items |-> [i \in 0..(MAX_PROCESSES - 1) |-> 0], front |-> -1, rear |-> -1]

queueIsEmpty(q) == q.front = -1

\* enqueue with the rear index not advanced: the new item overwrites the last.
enqueue_no_advance(q, process_id) ==
    LET rear == IF q.front = -1 THEN 0 ELSE q.rear
        front == IF q.front = -1 THEN 0 ELSE q.front
    IN  [items |-> [q.items EXCEPT ![rear] = process_id], front |-> front, rear |-> rear]

enqueue(q, process_id) ==
    LET rear == IF q.front = -1 THEN 0 ELSE (q.rear + 1) % MAX_PROCESSES
        front == IF q.front = -1 THEN 0 ELSE q.front
    IN  [items |-> [q.items EXCEPT ![rear] = process_id], front |-> front, rear |-> rear]

\* dequeue taking the item at the rear (last in, first out).
dequeue_from_rear(q) ==
    IF queueIsEmpty(q) THEN [item |-> -1, q |-> q]
    ELSE [item |-> q.items[q.rear],
          q |-> IF q.front = q.rear
                THEN [q EXCEPT !.front = -1, !.rear = -1]
                ELSE [q EXCEPT !.rear = (q.rear + MAX_PROCESSES - 1) % MAX_PROCESSES]]

\* dequeue returns the item and the queue it leaves: [item, q]
dequeue(q) ==
    IF queueIsEmpty(q) THEN [item |-> -1, q |-> q]
    ELSE [item |-> q.items[q.front],
          q |-> IF q.front = q.rear
                THEN [q EXCEPT !.front = -1, !.rear = -1]
                ELSE [q EXCEPT !.front = (q.front + 1) % MAX_PROCESSES]]

\* The queue's contents, front first (not in the source: used to state claims).
RECURSIVE QueueFrom(_, _)
QueueFrom(q, i) ==
    IF i = q.rear THEN <<q.items[i]>>
    ELSE <<q.items[i]>> \o QueueFrom(q, (i + 1) % MAX_PROCESSES)

QueueContents(q) == IF queueIsEmpty(q) THEN <<>> ELSE QueueFrom(q, q.front)

\* ------------------------------------------------------------ initialisation

\* memset(p, 0, sizeof(Process)), then the fields read from the input
NewProcess(num_searches, array_size, keys) ==
    [page_table |-> [i \in Pages |-> 0],
     array_size |-> array_size,
     search_indices |-> [j \in 0..(MAX_SEARCHES - 1) |-> IF j < num_searches THEN keys[j] ELSE 0],
     num_searches |-> num_searches,
     current_search |-> 0,
     frames_allocated |-> 0,
     is_active |-> 0]

\* for (j = 0; j < ESSENTIAL_PAGES && num_free_frames > 0; j++)
\*     page_table[j] = free_frames[--num_free_frames] | VALID_BIT_MASK; frames_allocated++
\* The loop of initialize_system and of swap_in_process, on process pid.
allocate_essential(sys, pid) ==
    LET k == Min(ESSENTIAL_PAGES, sys.num_free_frames)
        p == sys.processes[pid]
        pt == [i \in Pages |->
                 IF i < k THEN MakeEntry(sys.free_frames[sys.num_free_frames - i])
                 ELSE p.page_table[i]]
    IN  [sys EXCEPT !.free_frames = SubSeq(@, 1, sys.num_free_frames - k),
                    !.num_free_frames = @ - k,
                    !.processes[pid].page_table = pt,
                    !.processes[pid].frames_allocated = @ + k]

RECURSIVE init_processes(_, _)
init_processes(sys, i) ==
    IF i >= sys.num_processes THEN sys
    ELSE LET s1 == allocate_essential(sys, i)
             s2 == [s1 EXCEPT !.processes[i].current_search = 0,
                              !.processes[i].is_active = 1]
         IN  init_processes(s2, i + 1)

\* initialize_system on an accepted input: user_frames frames, num_processes
\* processes with num_searches searches each, sizes[i] and keys[i][j] as read.
initialize_system(user_frames, num_processes, num_searches, sizes, keys) ==
    LET s0 == [free_frames |-> [i \in 1..user_frames |-> i - 1],
               num_free_frames |-> user_frames,
               processes |-> [i \in 0..(num_processes - 1) |->
                                NewProcess(num_searches, sizes[i], keys[i])],
               num_processes |-> num_processes,
               swap_queue |-> initQueue,
               page_accesses |-> 0,
               page_faults |-> 0,
               num_swaps |-> 0,
               min_active_processes |-> 0]
        s1 == init_processes(s0, 0)
    IN  [s1 EXCEPT !.min_active_processes = s1.num_processes]

\* ------------------------------------------------------------ swap out / in

\* get_active_process_count without its test of is_active: every process counts.
get_active_process_count_all(sys) == Cardinality(Pids(sys))

get_active_process_count(sys) ==
    Cardinality({i \in Pids(sys) : sys.processes[i].is_active # 0})

\* The frames of the valid entries of pt[i..], in page order.
RECURSIVE valid_frames(_, _)
valid_frames(pt, i) ==
    IF i >= PAGE_TABLE_SIZE THEN <<>>
    ELSE (IF IsValid(pt[i]) THEN <<FrameOf(pt[i])>> ELSE <<>>) \o valid_frames(pt, i + 1)

\* for (i = 0; i < PAGE_TABLE_SIZE; i++) if (page_table[i] & VALID_BIT_MASK)
\*     { free_frames[num_free_frames++] = page_table[i] & ~VALID_BIT_MASK; page_table[i] = 0; }
release_pages(sys, pid) ==
    LET fs == valid_frames(sys.processes[pid].page_table, 0)
    IN  [sys EXCEPT !.free_frames = @ \o fs,
                    !.num_free_frames = @ + Len(fs),
                    !.processes[pid].page_table = [i \in Pages |-> 0]]

\* swap_out_process without p->frames_allocated = 0.
swap_out_process_keeps_count(sys, process_id) ==
    IF sys.processes[process_id].is_active = 0 THEN sys
    ELSE LET s1 == release_pages(sys, process_id)
             s2 == [s1 EXCEPT !.processes[process_id].is_active = 0,
                              !.swap_queue = enqueue(@, process_id),
                              !.num_swaps = @ + 1]
             active_count == get_active_process_count(s2)
         IN  IF active_count < s2.min_active_processes
             THEN [s2 EXCEPT !.min_active_processes = active_count]
             ELSE s2

\* swap_out_process counting the active processes before it clears is_active.
swap_out_process_counts_first(sys, process_id) ==
    IF sys.processes[process_id].is_active = 0 THEN sys
    ELSE LET active_count == get_active_process_count(sys)
             s1 == release_pages(sys, process_id)
             s2 == [s1 EXCEPT !.processes[process_id].frames_allocated = 0,
                              !.processes[process_id].is_active = 0,
                              !.swap_queue = enqueue(@, process_id),
                              !.num_swaps = @ + 1]
         IN  IF active_count < s2.min_active_processes
             THEN [s2 EXCEPT !.min_active_processes = active_count]
             ELSE s2

swap_out_process(sys, process_id) ==
    IF sys.processes[process_id].is_active = 0 THEN sys
    ELSE LET s1 == release_pages(sys, process_id)
             s2 == [s1 EXCEPT !.processes[process_id].frames_allocated = 0,
                              !.processes[process_id].is_active = 0,
                              !.swap_queue = enqueue(@, process_id),
                              !.num_swaps = @ + 1]
             active_count == get_active_process_count(s2)
         IN  IF active_count < s2.min_active_processes
             THEN [s2 EXCEPT !.min_active_processes = active_count]
             ELSE s2

\* swap_in_process without system->num_swaps++.
swap_in_process_uncounted(sys, process_id) ==
    IF sys.processes[process_id].is_active # 0 THEN sys
    ELSE LET s1 == allocate_essential(sys, process_id)
         IN  [s1 EXCEPT !.processes[process_id].is_active = 1]

swap_in_process(sys, process_id) ==
    IF sys.processes[process_id].is_active # 0 THEN sys
    ELSE LET s1 == allocate_essential(sys, process_id)
         IN  [s1 EXCEPT !.processes[process_id].is_active = 1,
                        !.num_swaps = @ + 1]

\* --------------------------------------------------------------- page fault

\* The value read as p->page_table[page_num].  page_num is not checked against
\* PAGE_TABLE_SIZE: a read past the table yields whatever lies there, with the
\* valid bit set or clear.
read_entry(p, page_num) ==
    IF page_num \in Pages THEN {p.page_table[page_num]} ELSE {0, VALID_BIT_MASK}

\* handle_page_fault that returns 0 without swapping the process out.
handle_page_fault_no_swap(sys, process_id, page_num) ==
    IF sys.num_free_frames > 0
    THEN LET frame == sys.free_frames[sys.num_free_frames]
             s1 == [sys EXCEPT !.free_frames = SubSeq(@, 1, sys.num_free_frames - 1),
                               !.num_free_frames = @ - 1,
                               !.processes[process_id].frames_allocated = @ + 1]
         IN  [sys |-> IF page_num \in Pages
                      THEN [s1 EXCEPT !.processes[process_id].page_table[page_num] =
                                          MakeEntry(frame)]
                      ELSE s1,
              ret |-> 1]
    ELSE [sys |-> sys, ret |-> 0]

\* handle_page_fault that leaves the last free frame alone: num_free_frames > 1.
handle_page_fault_spares_last(sys, process_id, page_num) ==
    IF sys.num_free_frames > 1
    THEN LET frame == sys.free_frames[sys.num_free_frames]
             s1 == [sys EXCEPT !.free_frames = SubSeq(@, 1, sys.num_free_frames - 1),
                               !.num_free_frames = @ - 1,
                               !.processes[process_id].frames_allocated = @ + 1]
         IN  [sys |-> IF page_num \in Pages
                      THEN [s1 EXCEPT !.processes[process_id].page_table[page_num] =
                                          MakeEntry(frame)]
                      ELSE s1,
              ret |-> 1]
    ELSE [sys |-> swap_out_process(sys, process_id), ret |-> 0]

\* Returns [sys, ret].  A store to page_table[page_num] past the table changes
\* no entry of the table: the frame has left the free list and frames_allocated
\* counts it, but no entry of any table refers to it.
handle_page_fault(sys, process_id, page_num) ==
    IF sys.num_free_frames > 0
    THEN LET frame == sys.free_frames[sys.num_free_frames]
             s1 == [sys EXCEPT !.free_frames = SubSeq(@, 1, sys.num_free_frames - 1),
                               !.num_free_frames = @ - 1,
                               !.processes[process_id].frames_allocated = @ + 1]
         IN  [sys |-> IF page_num \in Pages
                      THEN [s1 EXCEPT !.processes[process_id].page_table[page_num] =
                                          MakeEntry(frame)]
                      ELSE s1,
              ret |-> 1]
    ELSE [sys |-> swap_out_process(sys, process_id), ret |-> 0]

\* --------------------------------------------------------------- binary search

\* (M * 4) / PAGE_SIZE + ESSENTIAL_PAGES
page_of(M) == (M * 4) \div PAGE_SIZE + ESSENTIAL_PAGES

\* The while (L < R) loop of simulate_binary_search.  The set of its outcomes
\* [sys, completed, no_frame, out_of_table]: completed is FALSE when the loop
\* was left by the return after handle_page_fault returned 0; no_frame records
\* that a fault found num_free_frames = 0; out_of_table that a page number
\* past the table was referenced.
RECURSIVE search_loop(_, _, _, _, _, _)
search_loop(sys, process_id, search_key, L, R, out_of_table) ==
    IF ~(L < R)
    THEN {[sys |-> sys, completed |-> TRUE, no_frame |-> FALSE,
           out_of_table |-> out_of_table]}
    ELSE LET M == (L + R) \div 2
             page_num == page_of(M)
             oot == out_of_table \/ page_num \notin Pages
             s1 == [sys EXCEPT !.page_accesses = @ + 1]
             L2 == IF search_key <= M THEN L ELSE M + 1
             R2 == IF search_key <= M THEN M ELSE R
             s2 == [s1 EXCEPT !.page_faults = @ + 1]
             hpf == handle_page_fault(s2, process_id, page_num)
         IN  UNION { IF IsValid(e)
                     THEN search_loop(s1, process_id, search_key, L2, R2, oot)
                     ELSE IF hpf.ret = 0
                          THEN {[sys |-> hpf.sys, completed |-> FALSE,
                                 no_frame |-> s2.num_free_frames = 0,
                                 out_of_table |-> oot]}
                          ELSE search_loop(hpf.sys, process_id, search_key, L2, R2, oot)
                   : e \in read_entry(s1.processes[process_id], page_num) }

\* The drain without the test of num_free_frames: while (!queueIsEmpty(&swap_queue)).
RECURSIVE drain_swap_queue_unchecked(_, _)
drain_swap_queue_unchecked(sys, swapped_in) ==
    IF queueIsEmpty(sys.swap_queue)
    THEN [sys |-> sys, swapped_in |-> swapped_in]
    ELSE LET d == dequeue(sys.swap_queue)
             next_process == d.item
             s1 == [sys EXCEPT !.swap_queue = d.q]
         IN  IF next_process # -1 /\ s1.processes[next_process].is_active = 0
             THEN drain_swap_queue_unchecked(swap_in_process(s1, next_process),
                                             Append(swapped_in, next_process))
             ELSE drain_swap_queue_unchecked(s1, swapped_in)

\* The drain with an if for its while: at most one process is resumed.
drain_swap_queue_once(sys, swapped_in) ==
    IF ~(~queueIsEmpty(sys.swap_queue) /\ sys.num_free_frames >= ESSENTIAL_PAGES)
    THEN [sys |-> sys, swapped_in |-> swapped_in]
    ELSE LET d == dequeue(sys.swap_queue)
             next_process == d.item
             s1 == [sys EXCEPT !.swap_queue = d.q]
         IN  IF next_process # -1 /\ s1.processes[next_process].is_active = 0
             THEN [sys |-> swap_in_process(s1, next_process),
                   swapped_in |-> Append(swapped_in, next_process)]
             ELSE [sys |-> s1, swapped_in |-> swapped_in]

\* The drain that asks for one free frame only: num_free_frames > 0.
RECURSIVE drain_swap_queue_any_frame(_, _)
drain_swap_queue_any_frame(sys, swapped_in) ==
    IF ~(~queueIsEmpty(sys.swap_queue) /\ sys.num_free_frames > 0)
    THEN [sys |-> sys, swapped_in |-> swapped_in]
    ELSE LET d == dequeue(sys.swap_queue)
             next_process == d.item
             s1 == [sys EXCEPT !.swap_queue = d.q]
         IN  IF next_process # -1 /\ s1.processes[next_process].is_active = 0
             THEN drain_swap_queue_any_frame(swap_in_process(s1, next_process),
                                             Append(swapped_in, next_process))
             ELSE drain_swap_queue_any_frame(s1, swapped_in)

\* while (!queueIsEmpty(&swap_queue) && num_free_frames >= ESSENTIAL_PAGES)
\*     { next = dequeue(); if (next != -1 && !processes[next].is_active) swap_in_process(next); }
\* Returns [sys, swapped_in]: swapped_in lists the processes swap_in_process
\* made active, in order.
RECURSIVE drain_swap_queue(_, _)
drain_swap_queue(sys, swapped_in) ==
    IF ~(~queueIsEmpty(sys.swap_queue) /\ sys.num_free_frames >= ESSENTIAL_PAGES)
    THEN [sys |-> sys, swapped_in |-> swapped_in]
    ELSE LET d == dequeue(sys.swap_queue)
             next_process == d.item
             s1 == [sys EXCEPT !.swap_queue = d.q]
         IN  IF next_process # -1 /\ s1.processes[next_process].is_active = 0
             THEN drain_swap_queue(swap_in_process(s1, next_process),
                                   Append(swapped_in, next_process))
             ELSE drain_swap_queue(s1, swapped_in)

\* The part of simulate_binary_search after the loop: p->current_search++, and
\* for the last search the release of the pages and the drain.
finish_search(sys, process_id) ==
    LET s1 == [sys EXCEPT !.processes[process_id].current_search = @ + 1]
        p == s1.processes[process_id]
    IN  IF p.current_search >= p.num_searches
        THEN LET s2 == release_pages(s1, process_id)
                 s3 == [s2 EXCEPT !.processes[process_id].frames_allocated = 0]
                 d == drain_swap_queue(s3, <<>>)
             IN  [sys |-> d.sys, swapped_in |-> d.swapped_in, kind |-> "completed"]
        ELSE [sys |-> s1, swapped_in |-> <<>>, kind |-> "advanced"]

\* simulate_binary_search without the !p->is_active test of its guard.
simulate_binary_search_unguarded(sys, process_id) ==
    LET p == sys.processes[process_id]
    IN  IF p.current_search >= p.num_searches
        THEN {[sys |-> sys, kind |-> "finished", no_frame |-> FALSE,
               out_of_table |-> FALSE, swapped_in |-> <<>>]}
        ELSE { IF r.completed
               THEN LET f == finish_search(r.sys, process_id)
                    IN  [sys |-> f.sys, kind |-> f.kind, no_frame |-> r.no_frame,
                         out_of_table |-> r.out_of_table, swapped_in |-> f.swapped_in]
               ELSE [sys |-> r.sys, kind |-> "swapped", no_frame |-> r.no_frame,
                     out_of_table |-> r.out_of_table, swapped_in |-> <<>>]
             : r \in search_loop(sys, process_id, p.search_indices[p.current_search],
                                 0, p.array_size - 1, FALSE) }

\* simulate_binary_search: the set of its outcomes [sys, kind, no_frame,
\* out_of_table, swapped_in].  kind tells how the call ended:
\*   "inactive"  returned at once, the process is not active
\*   "finished"  returned at once, the process has no search left
\*   "swapped"   returned from the loop, handle_page_fault returned 0
\*   "advanced"  a search was completed, others are left
\*   "completed" the last search was completed
simulate_binary_search(sys, process_id) ==
    LET p == sys.processes[process_id]
        idle(kind) == {[sys |-> sys, kind |-> kind, no_frame |-> FALSE,
                        out_of_table |-> FALSE, swapped_in |-> <<>>]}
    IN  IF p.is_active = 0 THEN idle("inactive")
        ELSE IF p.current_search >= p.num_searches THEN idle("finished")
        ELSE { IF r.completed
               THEN LET f == finish_search(r.sys, process_id)
                    IN  [sys |-> f.sys, kind |-> f.kind, no_frame |-> r.no_frame,
                         out_of_table |-> r.out_of_table, swapped_in |-> f.swapped_in]
               ELSE [sys |-> r.sys, kind |-> "swapped", no_frame |-> r.no_frame,
                     out_of_table |-> r.out_of_table, swapped_in |-> <<>>]
             : r \in search_loop(sys, process_id, p.search_indices[p.current_search],
                                 0, p.array_size - 1, FALSE) }

\* ------------------------------------- the array-shifting variant (lines 1-297)
\*
\* The first program of the file.  Its SystemState holds swap_queue as an array
\* with swap_queue_size (here the sequence of its live prefix), and main keeps
\* an array swap_queue of its own (the variable swap_queue).  Definitions of
\* this variant end in _v1; initialisation, the release loop and the search
\* loop are the same code as in the circular-queue variant.

\* initialize_system (lines 43-112): the same statements; memset leaves
\* swap_queue_size = 0.
initialize_system_v1(user_frames, num_processes, num_searches, sizes, keys) ==
    [initialize_system(user_frames, num_processes, num_searches, sizes, keys)
        EXCEPT !.swap_queue = <<>>]

\* swap_out_process (lines 114-136): no test of is_active; num_swaps++ first.
swap_out_process_v1(sys, process_id) ==
    LET s0 == [sys EXCEPT !.num_swaps = @ + 1]
        s1 == release_pages(s0, process_id)
        s2 == [s1 EXCEPT !.processes[process_id].frames_allocated = 0,
                         !.processes[process_id].is_active = 0,
                         !.swap_queue = Append(@, process_id)]
        active_count == get_active_process_count(s2)
    IN  IF active_count < s2.min_active_processes
        THEN [s2 EXCEPT !.min_active_processes = active_count]
        ELSE s2

\* swap_in_process (lines 138-150): no test of is_active, num_swaps untouched.
\* The loop stores into page_table[0..] whatever the entries hold.
swap_in_process_v1(sys, process_id) ==
    LET s1 == allocate_essential(sys, process_id)
    IN  [s1 EXCEPT !.processes[process_id].is_active = 1]

\* handle_page_fault (lines 152-163)
handle_page_fault_v1(sys, process_id, page_num) ==
    IF sys.num_free_frames > 0
    THEN LET frame == sys.free_frames[sys.num_free_frames]
             s1 == [sys EXCEPT !.free_frames = SubSeq(@, 1, sys.num_free_frames - 1),
                               !.num_free_frames = @ - 1,
                               !.processes[process_id].frames_allocated = @ + 1]
         IN  [sys |-> IF page_num \in Pages
                      THEN [s1 EXCEPT !.processes[process_id].page_table[page_num] =
                                          MakeEntry(frame)]
                      ELSE s1,
              ret |-> 1]
    ELSE [sys |-> swap_out_process_v1(sys, process_id), ret |-> 0]

\* The while (L < R) loop of simulate_binary_search (lines 176-193); as search_loop.
RECURSIVE search_loop_v1(_, _, _, _, _, _)
search_loop_v1(sys, process_id, search_key, L, R, out_of_table) ==
    IF ~(L < R)
    THEN {[sys |-> sys, completed |-> TRUE, no_frame |-> FALSE,
           out_of_table |-> out_of_table]}
    ELSE LET M == (L + R) \div 2
             page_num == page_of(M)
             oot == out_of_table \/ page_num \notin Pages
             s1 == [sys EXCEPT !.page_accesses = @ + 1]
             L2 == IF search_key <= M THEN L ELSE M + 1
             R2 == IF search_key <= M THEN M ELSE R
             s2 == [s1 EXCEPT !.page_faults = @ + 1]
             hpf == handle_page_fault_v1(s2, process_id, page_num)
         IN  UNION { IF IsValid(e)
                     THEN search_loop_v1(s1, process_id, search_key, L2, R2, oot)
                     ELSE IF hpf.ret = 0
                          THEN {[sys |-> hpf.sys, completed |-> FALSE,
                                 no_frame |-> s2.num_free_frames = 0,
                                 out_of_table |-> oot]}
                          ELSE search_loop_v1(hpf.sys, process_id, search_key, L2, R2, oot)
                   : e \in read_entry(s1.processes[process_id], page_num) }

\* A call of swap_in_process on next_process, recorded: acc is
\* [sys, swapped_in, double_in, overwrote]; double_in is set when the process
\* was active already, overwrote when a valid entry of its table was stored over.
swap_in_recorded_v1(acc, next_process) ==
    LET p == acc.sys.processes[next_process]
        k == Min(ESSENTIAL_PAGES, acc.sys.num_free_frames)
    IN  [sys |-> swap_in_process_v1(acc.sys, next_process),
         swapped_in |-> Append(acc.swapped_in, next_process),
         double_in |-> acc.double_in \/ p.is_active # 0,
         overwrote |-> acc.overwrote \/ \E i \in 0..(k - 1) : IsValid(p.page_table[i])]

\* The end of simulate_binary_search (lines 195-209): p->current_search++, and
\* after the last search the release of the pages and one swap-in, of the
\* process on top of system->swap_queue.
finish_search_v1(sys, process_id) ==
    LET s1 == [sys EXCEPT !.processes[process_id].current_search = @ + 1]
        p == s1.processes[process_id]
        none(st) == [sys |-> st, swapped_in |-> <<>>, double_in |-> FALSE,
                     overwrote |-> FALSE]
    IN  IF p.current_search >= p.num_searches
        THEN LET s2 == release_pages(s1, process_id)
                 s3 == [s2 EXCEPT !.processes[process_id].frames_allocated = 0]
                 n == Len(s3.swap_queue)
             IN  IF n > 0
                 THEN swap_in_recorded_v1(
                          none([s3 EXCEPT !.swap_queue = SubSeq(@, 1, n - 1)]),
                          s3.swap_queue[n])
                 ELSE none(s3)
        ELSE none(s1)

\* The value read as p->search_indices[p->current_search] (line 167).
\* current_search is not tested against num_searches: up to MAX_SEARCHES - 1
\* the array holds the keys read and the zeros of memset; from MAX_SEARCHES on
\* the read is past the array (out_of_array).
read_search_key_v1(p) ==
    IF p.current_search < MAX_SEARCHES
    THEN [key |-> p.search_indices[p.current_search], out_of_array |-> FALSE]
    ELSE [key |-> 0, out_of_array |-> TRUE]

\* simulate_binary_search (lines 165-210): the set of its outcomes
\* [sys, kind, no_frame, out_of_table, swapped_in, double_in, overwrote,
\* out_of_array], kind as for the other variant.  There is no guard.
simulate_binary_search_v1(sys, process_id) ==
    LET p == sys.processes[process_id]
        k == read_search_key_v1(p)
    IN  { IF r.completed
          THEN LET f == finish_search_v1(r.sys, process_id)
               IN  [sys |-> f.sys,
                    kind |-> IF f.sys.processes[process_id].current_search
                                  >= f.sys.processes[process_id].num_searches
                             THEN "completed" ELSE "advanced",
                    no_frame |-> r.no_frame, out_of_table |-> r.out_of_table,
                    swapped_in |-> f.swapped_in, double_in |-> f.double_in,
                    overwrote |-> f.overwrote, out_of_array |-> k.out_of_array]
          ELSE [sys |-> r.sys, kind |-> "swapped", no_frame |-> r.no_frame,
                out_of_table |-> r.out_of_table, swapped_in |-> <<>>,
                double_in |-> FALSE, overwrote |-> FALSE,
                out_of_array |-> k.out_of_array]
        : r \in search_loop_v1(sys, process_id, k.key, 0, p.array_size - 1, FALSE) }

\* main's do ... while (lines 250-257): the cursor moves to the first process,
\* from the cursor on, that is active with a search pending; it comes back to
\* where it was when there is none.
find_runnable_v1(sys, cursor) ==
    LET n == sys.num_processes
        runnable(i) == /\ sys.processes[i].is_active # 0
                       /\ sys.processes[i].current_search < sys.processes[i].num_searches
        ds == {d \in 0..(n - 1) : runnable((cursor + d) % n)}
    IN  IF ds = {} THEN cursor
        ELSE (cursor + (CHOOSE d \in ds : \A e \in ds : d <= e)) % n

\* main's while (swap_queue_size > 0 && num_free_frames >= ESSENTIAL_PAGES)
\* (lines 272-280) on main's own queue q: acc is [sys, swapped_in, double_in,
\* overwrote]; returns [acc, q].
RECURSIVE drain_main_queue_v1(_, _)
drain_main_queue_v1(acc, q) ==
    IF ~(Len(q) > 0 /\ acc.sys.num_free_frames >= ESSENTIAL_PAGES)
    THEN [acc |-> acc, q |-> q]
    ELSE drain_main_queue_v1(swap_in_recorded_v1(acc, q[1]), Tail(q))

\* main's "when a process finishes" block (lines 259-281) for the process under
\* the cursor: nothing when it has a search pending.
when_finished_v1(sys, q, cursor) ==
    LET p == sys.processes[cursor]
        acc0(st) == [sys |-> st, swapped_in |-> <<>>, double_in |-> FALSE,
                     overwrote |-> FALSE]
    IN  IF p.current_search >= p.num_searches
        THEN LET s1 == release_pages(sys, cursor)
                 s2 == [s1 EXCEPT !.processes[cursor].frames_allocated = 0]
             IN  drain_main_queue_v1(acc0(s2), q)
        ELSE [acc |-> acc0(sys), q |-> q]

\* One iteration of main's while (1) that does not break (lines 250-292), from
\* sys, main's queue q and the cursor: the set of its outcomes
\* [sys, q, cursor, pid, kind, ...].  pid is the process the cursor settled on;
\* kind is "idle" when simulate_binary_search was not called; overrun is set
\* when the iteration indexed search_indices, system->swap_queue or main's
\* swap_queue past its end.
main_iteration_v1(sys, q, cursor) ==
    LET c == find_runnable_v1(sys, cursor)
        w == when_finished_v1(sys, q, c)
        nxt == (c + 1) % sys.num_processes
    IN  IF w.acc.sys.processes[c].is_active # 0
        THEN { LET q2 == IF r.sys.processes[c].is_active = 0 THEN Append(w.q, c) ELSE w.q
               IN  [sys |-> r.sys, q |-> q2, cursor |-> nxt, pid |-> c, kind |-> r.kind,
                    no_frame |-> r.no_frame, out_of_table |-> r.out_of_table,
                    swapped_in |-> w.acc.swapped_in \o r.swapped_in,
                    double_in |-> w.acc.double_in \/ r.double_in,
                    overwrote |-> w.acc.overwrote \/ r.overwrote,
                    ran_finished |-> sys.processes[c].current_search
                                        >= sys.processes[c].num_searches,
                    overrun |-> \/ r.out_of_array
                                \/ Len(r.sys.swap_queue) > MAX_PROCESSES
                                \/ Len(q2) > MAX_PROCESSES]
             : r \in simulate_binary_search_v1(w.acc.sys, c) }
        ELSE {[sys |-> w.acc.sys, q |-> w.q, cursor |-> nxt, pid |-> c, kind |-> "idle",
               no_frame |-> FALSE, out_of_table |-> FALSE,
               swapped_in |-> w.acc.swapped_in, double_in |-> w.acc.double_in,
               overwrote |-> w.acc.overwrote, ran_finished |-> FALSE,
               overrun |-> FALSE]}

\* ------------------------------------------------------------------- main

VARIABLES
    USER_FRAMES,     \* the size of the frame pool
    system,          \* main's SystemState
    active_process,  \* main's round-robin cursor
    pc,              \* "loop" in main's while loop, "done" after it
    last,            \* how the last call of simulate_binary_search ended:
                     \* [pid, kind, no_frame, out_of_table, swapped_in]
    out_log,         \* the processes swapped out so far, in order
    in_log,          \* the processes swapped in so far, in order
    min_seen,        \* the least active count of the states so far
    swap_queue,      \* the array swap_queue local to main in the array-shifting
                     \* variant (its live prefix swap_queue[0..swap_queue_size-1]);
                     \* main of the circular-queue variant has no such array
    rr               \* the record of who ran when (NoHistory, RecordTurn)

vars == <<USER_FRAMES, system, active_process, pc, last, out_log, in_log, min_seen,
          swap_queue, rr>>

\* The number of processes whose is_active flag is set (used for min_seen and
\* to state claims; the program's own count is get_active_process_count).
ActiveCount(sys) == Cardinality({i \in Pids(sys) : sys.processes[i].is_active # 0})

all_done(sys) ==
    \A i \in Pids(sys) : ~(sys.processes[i].current_search < sys.processes[i].num_searches)

\* The calls of simulate_binary_search that ran the search loop: a workload step.
StepKinds == {"swapped", "advanced", "completed"}

\* rr before the first iteration, for n processes:
\*   turns[i][j]  the workload steps of j since the last turn of i (at most 2 counted)
\*   steps[i][j]  the workload steps of j since the last workload step of i (same)
\*   ran[i]       i has executed a workload step
\*   idle[i]      the iterations in a row, up to now, that i began active with a
\*                search pending and ended without a workload step of its own
NoHistory(n) ==
    [turns |-> [i \in 0..(n - 1) |-> [j \in 0..(n - 1) |-> 0]],
     steps |-> [i \in 0..(n - 1) |-> [j \in 0..(n - 1) |-> 0]],
     ran |-> [i \in 0..(n - 1) |-> FALSE],
     idle |-> [i \in 0..(n - 1) |-> 0]]

\* rr after an iteration that began in sys with the cursor on c and whose call
\* of simulate_binary_search ended as kind tells.
RecordTurn(h, sys, c, kind) ==
    LET step == kind \in StepKinds
        ps == Pids(sys)
        runnable(i) == /\ sys.processes[i].is_active # 0
                       /\ sys.processes[i].current_search < sys.processes[i].num_searches
    IN  [turns |-> [i \in ps |-> [j \in ps |->
                      IF i = c THEN 0
                      ELSE IF j = c /\ step THEN Min(h.turns[i][j] + 1, 2)
                      ELSE h.turns[i][j]]],
         steps |-> [i \in ps |-> [j \in ps |->
                      IF ~step THEN h.steps[i][j]
                      ELSE IF i = c THEN 0
                      ELSE IF j = c THEN Min(h.steps[i][j] + 1, 2)
                      ELSE h.steps[i][j]]],
         ran |-> [i \in ps |-> h.ran[i] \/ (i = c /\ step)],
         idle |-> [i \in ps |->
                      IF ~runnable(i) \/ (i = c /\ step) THEN 0
                      ELSE Min(h.idle[i] + 1, sys.num_processes)]]

\* The cursor moved on to the next process that is active with a search pending
\* (the process after the cursor when there is none).
next_cursor_skipping(sys, cursor) ==
    LET n == sys.num_processes
        runnable(i) == /\ sys.processes[i].is_active # 0
                       /\ sys.processes[i].current_search < sys.processes[i].num_searches
        ds == {d \in 1..n : runnable((cursor + d) % n)}
    IN  IF ds = {} THEN (cursor + 1) % n
        ELSE (cursor + Min(CHOOSE d \in ds : \A e \in ds : d <= e, n)) % n

\* active_process = (active_process + 1) % system.num_processes
next_cursor(sys, cursor) == (cursor + 1) % sys.num_processes

Init ==
    \E f \in FramePools, n \in 1..MAX_PROCESSES, s \in 1..MAX_SEARCHES :
      \E sizes \in [0..(n - 1) -> ArraySizes],
         keys \in [0..(n - 1) -> [0..(s - 1) -> Keys]] :
        /\ USER_FRAMES = f
        /\ system = initialize_system(f, n, s, sizes, keys)
        /\ active_process = 0
        /\ pc = "loop"
        /\ last = [pid |-> -1, kind |-> "none", no_frame |-> FALSE,
                   out_of_table |-> FALSE, swapped_in |-> <<>>]
        /\ out_log = <<>>
        /\ in_log = <<>>
        /\ min_seen = n
        /\ swap_queue = <<>>
        /\ rr = NoHistory(n)

\* One iteration of while (1) that does not break.
Turn ==
    /\ pc = "loop"
    /\ ~all_done(system)
    /\ \E r \in simulate_binary_search(system, active_process) :
         /\ system' = r.sys
         /\ last' = [pid |-> active_process, kind |-> r.kind, no_frame |-> r.no_frame,
                     out_of_table |-> r.out_of_table, swapped_in |-> r.swapped_in]
         /\ out_log' = IF r.kind = "swapped" THEN Append(out_log, active_process)
                       ELSE out_log
         /\ in_log' = in_log \o r.swapped_in
         /\ min_seen' = Min(min_seen, ActiveCount(r.sys))
    /\ active_process' = next_cursor(system, active_process)
    /\ UNCHANGED <<USER_FRAMES, pc, swap_queue>>

\* if (all_done) break;
Exit ==
    /\ pc = "loop"
    /\ all_done(system)
    /\ pc' = "done"
    /\ UNCHANGED <<USER_FRAMES, system, active_process, last, out_log, in_log, min_seen,
                   swap_queue, rr>>

Next == (Turn /\ UNCHANGED rr) \/ Exit

Spec == Init /\ [][Next]_vars

\* The same program, with rr recording each iteration.
NextRR == (Turn /\ rr' = RecordTurn(rr, system, active_process, last'.kind)) \/ Exit

SpecRR == Init /\ [][NextRR]_vars

\* The loop of main runs on: an iteration that can be taken is taken.
FairSpec == Spec /\ WF_vars(Next)

\* ------------------------------------------- main of the array-shifting variant

Init_v1 ==
    \E f \in FramePools, n \in 1..MAX_PROCESSES, s \in 1..MAX_SEARCHES :
      \E sizes \in [0..(n - 1) -> ArraySizes],
         keys \in [0..(n - 1) -> [0..(s - 1) -> Keys]] :
        /\ USER_FRAMES = f
        /\ system = initialize_system_v1(f, n, s, sizes, keys)
        /\ active_process = 0
        /\ pc = "loop"
        /\ last = [pid |-> -1, kind |-> "none", no_frame |-> FALSE,
                   out_of_table |-> FALSE, swapped_in |-> <<>>, double_in |-> FALSE,
                   overwrote |-> FALSE, ran_finished |-> FALSE]
        /\ out_log = <<>>
        /\ in_log = <<>>
        /\ min_seen = n
        /\ swap_queue = <<>>
        /\ rr = NoHistory(n)

\* One iteration of while (1) that does not break and stays within its arrays.
Turn_v1 ==
    /\ pc = "loop"
    /\ ~all_done(system)
    /\ \E r \in main_iteration_v1(system, swap_queue, active_process) :
         /\ ~r.overrun
         /\ system' = r.sys
         /\ swap_queue' = r.q
         /\ active_process' = r.cursor
         /\ last' = [pid |-> r.pid, kind |-> r.kind, no_frame |-> r.no_frame,
                     out_of_table |-> r.out_of_table, swapped_in |-> r.swapped_in,
                     double_in |-> r.double_in, overwrote |-> r.overwrote,
                     ran_finished |-> r.ran_finished]
         /\ out_log' = IF r.kind = "swapped" THEN Append(out_log, r.pid) ELSE out_log
         /\ in_log' = in_log \o r.swapped_in
         /\ min_seen' = Min(min_seen, ActiveCount(r.sys))
    /\ UNCHANGED <<USER_FRAMES, pc, rr>>

\* An iteration that indexes search_indices, system->swap_queue or main's
\* swap_queue past its end: what the program does from there on is not followed.
Overrun_v1 ==
    /\ pc = "loop"
    /\ ~all_done(system)
    /\ \E r \in main_iteration_v1(system, swap_queue, active_process) : r.overrun
    /\ pc' = "overrun"
    /\ UNCHANGED <<USER_FRAMES, system, active_process, last, out_log, in_log, min_seen,
                   swap_queue, rr>>

\* if (all_done) break;
Exit_v1 ==
    /\ pc = "loop"
    /\ all_done(system)
    /\ pc' = "done"
    /\ UNCHANGED <<USER_FRAMES, system, active_process, last, out_log, in_log, min_seen,
                   swap_queue, rr>>

Next_v1 == Turn_v1 \/ Overrun_v1 \/ Exit_v1

Spec_v1 == Init_v1 /\ [][Next_v1]_vars

\* ------------------------------------------------------- stating the claims

Proc(i) == system.processes[i]

Pending(i) == Proc(i).current_search < Proc(i).num_searches

ValidPages(i) == {pg \in Pages : IsValid(Proc(i).page_table[pg])}

RECURSIVE SumAllocated(_)
SumAllocated(n) ==
    IF n = 0 THEN 0 ELSE Proc(n - 1).frames_allocated + SumAllocated(n - 1)

\* Every page number a search of process i can reference lies within the table.
InTable(i) == \A M \in 0..(Proc(i).array_size - 2) : page_of(M) \in Pages

AllInTable == \A i \in Pids(system) : InTable(i)

\* How often frame f occurs in the free list and in valid page-table entries.
FreeSlots(f) == {k \in 1..system.num_free_frames : system.free_frames[k] = f}

Holders(f) ==
    {x \in Pids(system) \X Pages :
        IsValid(Proc(x[1]).page_table[x[2]]) /\ FrameOf(Proc(x[1]).page_table[x[2]]) = f}

Queued == QueueContents(system.swap_queue)

QueuedSet == {Queued[k] : k \in 1..Len(Queued)}

IsPrefix(a, b) == Len(a) <= Len(b) /\ SubSeq(b, 1, Len(a)) = a

\* Some search is pending and every process with a pending search is suspended.
Stuck == /\ pc = "loop"
         /\ \E i \in Pids(system) : Pending(i)
         /\ \A i \in Pids(system) : Pending(i) => Proc(i).is_active = 0

\* A state of total suspension is never left: only a process that completes its
\* last search swaps others in, and a suspended process completes nothing.
StuckIsForever == [][Stuck => Stuck']_vars

\* A turn of main's loop is being taken.
InTurn == pc = "loop" /\ ~all_done(system)

\* ------------------------------------------------------------------ claims

\* C1 (frame conservation): in every reachable state num_free_frames plus the
\* sum over all processes of frames_allocated equals the number of user frames.
C1_FrameConservation ==
    system.num_free_frames + SumAllocated(system.num_processes) = USER_FRAMES

\* C1, for workloads whose page references all lie within the page table.
C1_FrameConservationInTable == AllInTable => C1_FrameConservation

\* C2 (frame partition): in every reachable state each user frame is either
\* exactly once in the free list or referenced by exactly one valid page-table
\* entry of exactly one process, never both and never neither.
C2_FramePartition ==
    \A f \in 0..(USER_FRAMES - 1) :
        Cardinality(FreeSlots(f)) + Cardinality(Holders(f)) = 1

\* C2, for workloads whose page references all lie within the page table.
C2_FramePartitionInTable == AllInTable => C2_FramePartition

\* C3 (swap-queue membership): in every reachable state a process id occurs in
\* the swap queue at most once, and it is in the swap queue if and only if the
\* process is inactive.
C3_QueueMembership ==
    /\ Cardinality(QueuedSet) = Len(Queued)
    /\ \A i \in Pids(system) : (i \in QueuedSet) <=> (Proc(i).is_active = 0)
    /\ QueuedSet \subseteq Pids(system)

\* C3 witness: a process is queued after another one has been swapped in again.
C3_Witness == Len(Queued) > 0 /\ Len(in_log) > 0

\* C4 (FIFO resumption): processes are swapped in in exactly the order in which
\* they were swapped out: the sequence of swap-ins is a prefix of the sequence
\* of swap-outs, and what is left of the latter is the swap queue.
C4_FifoResumption ==
    /\ IsPrefix(in_log, out_log)
    /\ Queued = SubSeq(out_log, Len(in_log) + 1, Len(out_log))

\* C4 witness: one drain has resumed two suspended processes, one of which was
\* swapped out before the other.
C4_Witness == Len(last.swapped_in) >= 2

\* C5 (termination): the scheduler loop of main eventually exits.  As a
\* property a finite run refutes: no reachable state is one of total
\* suspension, which by StuckIsForever the loop never leaves.
C5_LoopExits == ~Stuck

\* C5, as the liveness property it is (under FairSpec).
C5_Termination == <>(pc = "done")

\* C6 (active/resident consistency), as claimed: for every process, runnable,
\* suspended or completed, is_active is set if and only if frames_allocated > 0.
C6_ActiveIffResident ==
    \A i \in Pids(system) : (Proc(i).is_active # 0) <=> (Proc(i).frames_allocated > 0)

\* C6, amended: a process that holds frames is active, and an active process
\* that holds none has completed its searches or found the pool empty at
\* initialisation (process i does when USER_FRAMES <= ESSENTIAL_PAGES * i).
C6_ActiveResidentAmended ==
    \A i \in Pids(system) :
        /\ Proc(i).frames_allocated > 0 => Proc(i).is_active # 0
        /\ (Proc(i).is_active # 0 /\ Proc(i).frames_allocated = 0)
              => (~Pending(i) \/ USER_FRAMES <= ESSENTIAL_PAGES * i)

\* C6 witness: a completed process is active with no frame while another
\* process, swapped out and in again, is active with frames.
C6_Witness ==
    /\ \E i \in Pids(system) :
          ~Pending(i) /\ Proc(i).is_active # 0 /\ Proc(i).frames_allocated = 0
    /\ \E i \in Pids(system) :
          Pending(i) /\ Proc(i).is_active # 0 /\ Proc(i).frames_allocated > 0
    /\ Len(in_log) > 0

\* C7: in every reachable state an inactive process has no valid page-table
\* entry and frames_allocated = 0, and for every process frames_allocated
\* equals the number of its page-table entries whose valid bit is set.
C7_AllocatedIsValidCount ==
    \A i \in Pids(system) :
        /\ Proc(i).is_active = 0 => (ValidPages(i) = {} /\ Proc(i).frames_allocated = 0)
        /\ Proc(i).frames_allocated = Cardinality(ValidPages(i))

\* C7, for workloads whose page references all lie within the page table.
C7_AllocatedIsValidCountInTable == AllInTable => C7_AllocatedIsValidCount

\* C8: a scheduling turn given to an inactive process changes nothing except
\* the round-robin cursor.
C8_InactiveTurnIsIdle ==
    [][(InTurn /\ Proc(active_process).is_active = 0)
         => /\ system' = system
            /\ active_process' = (active_process + 1) % system.num_processes
            /\ out_log' = out_log /\ in_log' = in_log /\ pc' = pc]_vars

\* C8 witness: the last turn was given to an inactive process.
C8_Witness == last.kind = "inactive"

\* C9: when an active process references a non-resident page while the free
\* list is empty, the step ends with exactly one swap-out of that process (it
\* is inactive, holds no frame and is appended to the swap queue), num_swaps
\* is increased by exactly 1, no other process changes, and the process's
\* current_search is not advanced.
C9_FaultWithoutFrameSwapsOut ==
    [][(InTurn /\ last'.no_frame /\ last'.pid = active_process)
         => LET p == active_process
                after == system'.processes[p]
            IN  /\ Proc(p).is_active # 0
                /\ after.is_active = 0
                /\ after.frames_allocated = 0
                /\ \A pg \in Pages : ~IsValid(after.page_table[pg])
                /\ QueueContents(system'.swap_queue) = Append(Queued, p)
                /\ out_log' = Append(out_log, p)
                /\ in_log' = in_log
                /\ system'.num_swaps = system.num_swaps + 1
                /\ after.current_search = Proc(p).current_search
                /\ \A q \in Pids(system) \ {p} : system'.processes[q] = Proc(q)]_vars

\* C9 witness: the last turn ended in a fault that found no free frame.
C9_Witness == last.no_frame /\ last.kind = "swapped"

\* C10 (degree of multiprogramming): in every reachable state
\* min_active_processes is the least number of active processes of the states
\* reached so far; it never exceeds the current number.
C10_MinActive ==
    /\ system.min_active_processes = min_seen
    /\ system.min_active_processes <= ActiveCount(system)

\* C10 witness: the active count has dropped and risen again above its minimum.
C10_Witness ==
    /\ system.min_active_processes < system.num_processes
    /\ system.min_active_processes < ActiveCount(system)

\* C11 (the drain is idle when it cannot resume): run while the swap queue is
\* empty, or while fewer than ESSENTIAL_PAGES frames are free, the drain of the
\* swap queue dequeues nothing, swaps nothing in and leaves the swap queue, the
\* free list, every process's is_active and page table and num_swaps as they are.
C11_DrainIdle ==
    (queueIsEmpty(system.swap_queue) \/ system.num_free_frames < ESSENTIAL_PAGES)
       => drain_swap_queue(system, <<>>) = [sys |-> system, swapped_in |-> <<>>]

\* C11 witness: the drain of the last completion resumed nobody, and a process
\* is queued while some frames, fewer than ESSENTIAL_PAGES, are free.
C11_Witness ==
    /\ last.kind = "completed" /\ last.swapped_in = <<>>
    /\ ~queueIsEmpty(system.swap_queue)
    /\ system.num_free_frames > 0 /\ system.num_free_frames < ESSENTIAL_PAGES

\* C14 (page-table bounds): every page number a workload step computes lies
\* within the page table, whatever array size the input gives: no turn has
\* referenced a page number outside 0..PAGE_TABLE_SIZE-1.
C14_PageTableBounds == ~last.out_of_table

\* The processes the step resumes: inactive before it and active after it.
Resumed == {i \in Pids(system) : Proc(i).is_active = 0 /\ system'.processes[i].is_active # 0}

\* The frames of the valid entries of the table of process i after the step.
FramesAfter(i) ==
    {FrameOf(system'.processes[i].page_table[pg]) :
        pg \in {x \in Pages : IsValid(system'.processes[i].page_table[x])}}

SeqToSet(sq) == {sq[k] : k \in 1..Len(sq)}

\* C19 (drain on completion): in the state right after a process has completed
\* its last search (frames released, drain finished) the swap queue is empty or
\* fewer than ESSENTIAL_PAGES frames are free; the processes that drain took
\* from the queue are the head of the queue, in order, and each of them has
\* been swapped in (it was inactive and is active).
C19_DrainOnCompletion ==
    [][(InTurn /\ last'.kind = "completed")
         => /\ \/ queueIsEmpty(system'.swap_queue)
               \/ system'.num_free_frames < ESSENTIAL_PAGES
            /\ Queued = last'.swapped_in \o QueueContents(system'.swap_queue)
            /\ Resumed = SeqToSet(last'.swapped_in)
            /\ in_log' = in_log \o last'.swapped_in]_vars

\* C19 witness: the last turn completed a process, its drain resumed a process
\* and stopped for want of frames with another process still queued.
C19_Witness ==
    /\ last.kind = "completed"
    /\ Len(last.swapped_in) >= 1
    /\ ~queueIsEmpty(system.swap_queue)
    /\ system.num_free_frames < ESSENTIAL_PAGES

\* C20 (a swap-in installs the whole essential set): every process a step
\* resumes was resumed by the drain, has after the step exactly the pages
\* 0..ESSENTIAL_PAGES-1 mapped, to ESSENTIAL_PAGES distinct frames that are no
\* longer in the free list, and frames_allocated = ESSENTIAL_PAGES; the free
\* list has lost exactly ESSENTIAL_PAGES frames for each process resumed (it
\* gains the pages the completing process held; counted for turns whose page
\* references are within the table).
C20_SwapInIsWhole ==
    [][InTurn
         => /\ Resumed = SeqToSet(last'.swapped_in)
            /\ Cardinality(Resumed) = Len(last'.swapped_in)
            /\ \A i \in Resumed :
                 /\ {pg \in Pages : IsValid(system'.processes[i].page_table[pg])}
                       = 0..(ESSENTIAL_PAGES - 1)
                 /\ Cardinality(FramesAfter(i)) = ESSENTIAL_PAGES
                 /\ system'.processes[i].frames_allocated = ESSENTIAL_PAGES
                 /\ \A k \in 1..system'.num_free_frames :
                       system'.free_frames[k] \notin FramesAfter(i)
                 /\ \A j \in Resumed \ {i} : FramesAfter(i) \cap FramesAfter(j) = {}
            /\ (last'.kind = "completed" /\ ~last'.out_of_table)
                 => system'.num_free_frames =
                       system.num_free_frames + Cardinality(ValidPages(active_process))
                         - ESSENTIAL_PAGES * Len(last'.swapped_in)]_vars

\* C20 witness: a swap-in has been performed and took the last free frames.
C20_Witness == last.swapped_in # <<>> /\ system.num_free_frames = 0

\* The scenario of C15: 3 processes, a pool of exactly 2 * ESSENTIAL_PAGES
\* frames, every process searching (at least once) an array of at least 2
\* elements that lies in one data page.
Scenario15 ==
    /\ system.num_processes = 3
    /\ USER_FRAMES = 2 * ESSENTIAL_PAGES
    /\ \A i \in Pids(system) :
         /\ Proc(i).array_size >= 2
         /\ Proc(i).num_searches >= 1
         /\ \A M \in 0..(Proc(i).array_size - 2) : page_of(M) = ESSENTIAL_PAGES

\* No process has completed a search yet.
NoSearchDone == \A i \in Pids(system) : Proc(i).current_search = 0

\* C15 (scenario): with 3 processes and a pool of 2 * ESSENTIAL_PAGES frames
\* exactly one process has been swapped out when the first search is completed,
\* the run does not get stuck, and at the end of the run min_active_processes,
\* the degree of multiprogramming reported, is 2.
C15_Scenario ==
    /\ [](Scenario15 => ~Stuck)
    /\ []((Scenario15 /\ pc = "done") => system.min_active_processes = 2)
    /\ [][(Scenario15 /\ NoSearchDone /\ ~NoSearchDone') => Len(out_log') = 1]_vars

\* C15 witness: the scenario has run to its end, after one swap-out and the
\* swap-in that followed it.
C15_Witness ==
    /\ Scenario15
    /\ pc = "done"
    /\ Len(out_log) = 1 /\ Len(in_log) = 1

\* What C16 says of one iteration: the cursor advances by exactly one modulo
\* the process count, and the iteration executes at most one workload step, for
\* the process under the cursor (which executes one if it is active with a
\* search pending); no other process's search advances.
OneStepUnderCursor ==
    [][InTurn
         => /\ active_process' = (active_process + 1) % system.num_processes
            /\ last'.pid = active_process
            /\ (Proc(active_process).is_active # 0 /\ Pending(active_process))
                  <=> last'.kind \in StepKinds
            /\ system'.processes[active_process].current_search
                  \in {Proc(active_process).current_search,
                       Proc(active_process).current_search + 1}
            /\ last'.kind \notin StepKinds
                  => system'.page_accesses = system.page_accesses
            /\ \A q \in Pids(system) \ {active_process} :
                  system'.processes[q].current_search = Proc(q).current_search]_vars

\* A process that stays active with a search pending executes a workload step
\* within every window of num_processes consecutive iterations.
StepWithinWindow == \A i \in Pids(system) : rr.idle[i] <= system.num_processes - 1

\* C16 (round-robin order), as claimed: every iteration advances the cursor by
\* one and executes at most one workload step, for the process under the
\* cursor; between two consecutive workload steps of the same process every
\* other process executes at most one workload step; a process that stays
\* active with pending searches executes a step within every window of
\* num_processes consecutive iterations.
C16_RoundRobin ==
    /\ OneStepUnderCursor
    /\ [][(InTurn /\ last'.kind \in StepKinds /\ rr.ran[active_process])
            => \A j \in Pids(system) \ {active_process} :
                  rr.steps[active_process][j] <= 1]_vars
    /\ []StepWithinWindow

\* C16, amended: as claimed, with the turns of a process (the iterations with
\* the cursor on it) in place of its workload steps: between two consecutive
\* turns of the same process every other process executes at most one
\* workload step.
C16_RoundRobinAmended ==
    /\ OneStepUnderCursor
    /\ [](\A i \in Pids(system) : \A j \in Pids(system) \ {i} : rr.turns[i][j] <= 1)
    /\ []StepWithinWindow

\* C16 witness: with 3 processes, a process has waited out the turns of the two
\* others, one of which executed a workload step and one of which, suspended,
\* executed none.
C16_Witness ==
    /\ system.num_processes = 3
    /\ \E i \in Pids(system) :
         /\ rr.idle[i] = 2
         /\ \E j \in Pids(system) \ {i} : rr.turns[i][j] = 1
         /\ \E j \in Pids(system) \ {i} : rr.turns[i][j] = 0 /\ Proc(j).is_active = 0

\* An iteration of the array-shifting variant's loop is taken (a Turn_v1 step).
TurnStep_v1 == pc = "loop" /\ ~all_done(system) /\ pc' = "loop"

\* The suspended processes, and the place in out_log of the last swap-out of i.
Suspended == {i \in Pids(system) : Proc(i).is_active = 0}

LastOut(i) ==
    LET ks == {k \in 1..Len(out_log) : out_log[k] = i}
    IN  IF ks = {} THEN 0 ELSE CHOOSE k \in ks : \A m \in ks : m <= k

\* C12 (swap accounting, array-shifting variant): every swap-out and every
\* swap-in adds exactly one to num_swaps, so in every reachable state num_swaps
\* is the number of swap-outs plus the number of swap-ins so far, and at the end
\* of the run num_swaps / 2 is the number of completed out/in cycles.
C12_SwapAccounting ==
    /\ system.num_swaps = Len(out_log) + Len(in_log)
    /\ pc = "done" => system.num_swaps \div 2 = Len(in_log)

\* C13 (terminal state, array-shifting variant): a process whose current_search
\* has reached num_searches executes no further workload step: current_search
\* never exceeds num_searches, and no iteration runs a search for it, changes
\* its current_search or swaps it out.
C13_TerminalState ==
    /\ [](\A i \in Pids(system) : Proc(i).current_search <= Proc(i).num_searches)
    /\ [][TurnStep_v1
            => \A i \in Pids(system) :
                 ~Pending(i)
                   => /\ system'.processes[i].current_search = Proc(i).current_search
                      /\ ~(last'.pid = i /\ last'.kind \in StepKinds)
                      /\ Len(out_log') > Len(out_log) => out_log'[Len(out_log')] # i]_vars

\* C17 (FIFO resumption, array-shifting variant): when two or more processes
\* are suspended, the next swap-in resumes the one swapped out first.
C17_FifoResumption_v1 ==
    [][(TurnStep_v1 /\ last'.swapped_in # <<>> /\ Cardinality(Suspended) >= 2)
         => /\ Head(last'.swapped_in) \in Suspended
            /\ \A j \in Suspended : LastOut(Head(last'.swapped_in)) <= LastOut(j)]_vars

\* C18 (no double swap-in, array-shifting variant): swap_in_process is never
\* called on a process that is active, no swap-in stores over a valid
\* page-table entry, and (page references within the table) no frame is
\* missing from both the free list and the page tables.
C18_NoDoubleSwapIn ==
    /\ ~last.double_in
    /\ ~last.overwrote
    /\ AllInTable => \A f \in 0..(USER_FRAMES - 1) :
                        Cardinality(FreeSlots(f)) + Cardinality(Holders(f)) >= 1

\* The premise of C21: the pool holds at least PAGE_TABLE_SIZE frames and every
\* page reference lies within the table.
Premise21 == USER_FRAMES >= PAGE_TABLE_SIZE /\ AllInTable

\* C21 (no total suspension): with at least PAGE_TABLE_SIZE user frames and all
\* page references within the table, no reachable state has a search pending
\* with every process that has one inactive; whenever a process is swapped
\* out, another process with a pending search is active after the step.
C21_NoTotalSuspension ==
    /\ [](Premise21 => ~Stuck)
    /\ [][(Premise21 /\ InTurn /\ last'.kind = "swapped")
            => \E j \in Pids(system) \ {active_process} :
                  /\ system'.processes[j].is_active # 0
                  /\ system'.processes[j].current_search
                        < system'.processes[j].num_searches]_vars

\* C21 witness: under the premise a process has just been swapped out, and
\* another one has been swapped out and resumed before.
C21_Witness ==
    /\ Premise21
    /\ last.kind = "swapped"
    /\ Len(in_log) >= 1

\* C22 (the end of the run): when the scheduler loop has terminated the swap
\* queue is empty, no process is inactive, every swap-out has been followed by
\* a swap-in of the same process, num_swaps is even and num_swaps / 2 is the
\* number of swap-outs of the run.
C22_EndOfRun ==
    pc = "done"
      => /\ queueIsEmpty(system.swap_queue)
         /\ \A i \in Pids(system) : Proc(i).is_active # 0
         /\ in_log = out_log
         /\ system.num_swaps % 2 = 0
         /\ system.num_swaps \div 2 = Len(out_log)

\* C22 witness: the loop has terminated after a run in which a process was
\* swapped out twice.
C22_Witness ==
    /\ pc = "done"
    /\ \E i \in Pids(system) :
          Cardinality({k \in 1..Len(out_log) : out_log[k] = i}) >= 2

====
